---- MODULE Spec2Model ----
(***************************************************************************)
(* Model of master/buildbot/status/web/files/script/project/dataTables.js  *)
(*                                                                         *)
(* dataTables.init selects every element with class 'tablesorter-js',      *)
(* builds an option object per element, instantiates the table widget on   *)
(* it and binds a keydown handler to the filter inputs found on the page.  *)
(*                                                                         *)
(* The page is a sequence of table elements in document order.  JavaScript *)
(* runs each callback to completion, so one iteration of the .each         *)
(* callback is one step and keyboard events are only dispatched while no   *)
(* script is running (pc = "idle").                                        *)
(***************************************************************************)
EXTENDS Integers, Sequences, FiniteSets, TLC

VARIABLES
    page,          \* the table elements of the document, in document order
    buildersPage,  \* TRUE iff the document has an element with id 'builders_page'
    search,        \* window.location.search
    pc,            \* "idle": no script running; "each": inside tablesorterEl.each
    tablesorterEl, \* the jQuery selection of line 10 (indices into page)
    idx,           \* position of the .each loop in tablesorterEl
    initCount,     \* number of calls of init that have returned
    instances,     \* per table: the widget instance (its filter string), or NoInstance
    inputs,        \* tables whose widget created a '.dataTables_filter input'
    inputVal,      \* per filter input: its current value
    placeholder,   \* per filter input: its placeholder attribute
    focused,       \* the filter input holding the focus (0: none of them)
    handlers,      \* per filter input: the keydown handlers bound, in bind order;
                   \* a handler is the table its closure variable oTable refers to
    nextObj,       \* identity of the next object literal to be evaluated
    dtCalls,       \* calls of .dataTable() made by the current/last call of init
    helperCalls,   \* calls of helpers.codeBaseBranchOverview in the current/last init
    trace,         \* library calls made by the latest run of the .each callback
    lastKeydown,   \* the latest keydown event since init was last called (or NoEvent)
    fnFilterCalls  \* the fnFilter calls made by the handlers of that event

vars == <<page, buildersPage, search, pc, tablesorterEl, idx, initCount,
          instances, inputs, inputVal, placeholder, focused, handlers,
          nextObj, dtCalls, helperCalls, trace, lastKeydown, fnFilterCalls>>

(***************************************************************************)
(* Bounds of the model                                                     *)
(***************************************************************************)
MaxTables == 2   \* table elements on the page
MaxCols   == 2   \* th cells in one thead
MaxInits  == 2   \* calls of init on the same page

\* values a filter input can hold
Values == {"", "win"}

\* values of window.location.search
Searches == {"", "?branch=master"}

(***************************************************************************)
(* The document                                                            *)
(***************************************************************************)
TableClasses == {"tablesorter-js", "tools-js", "input-js"}

\* a th element: its class attribute
ThCells == [classes : SUBSET {"no-tablesorter-js"}]

SeqsUpTo(S, n) == UNION {[1..k -> S] : k \in 0..n}

\* jQuery .hasClass
HasClass(el, c) == c \in el.classes

TableOnlyDom == "<\"table-wrapper\"t>"
ToolbarDom == "<\"top\"flip><\"table-wrapper\"t><\"bottom\"pi>"

LengthMenu == "Entries per page<select><option value=\"10\">10</option><option value=\"25\">25</option><option value=\"50\">50</option><option value=\"100\">100</option><option value=\"-1\">All</option></select>"

\* JavaScript null, as pushed on colList
Null == [null |-> TRUE]

NoInstance == [created |-> FALSE]
NoEvent == [fired |-> FALSE]

\* assignment to a property of an object, creating it when absent
SetProp(o, k, v) == [x \in (DOMAIN o) \cup {k} |-> IF x = k THEN v ELSE o[x]]

(***************************************************************************)
(* The option object                                                       *)
(***************************************************************************)
\* the object literal of lines 16-41
DefaultOptions ==
    [bPaginate |-> FALSE, bLengthChange |-> FALSE, bFilter |-> FALSE,
     bSort |-> TRUE, bInfo |-> FALSE, bAutoWidth |-> FALSE,
     sDom |-> TableOnlyDom, bRetrieve |-> TRUE, asSorting |-> TRUE,
     bServerSide |-> FALSE, bSearchable |-> TRUE, aaSorting |-> <<>>,
     iDisplayLength |-> 50, bStateSave |-> TRUE]

\* variant of ToolsBranch: the branch also shortens the page length
ToolsBranchShortPage(o) ==
    LET o1 == [o EXCEPT !.bPaginate = TRUE, !.bLengthChange = TRUE,
                        !.bInfo = TRUE, !.bFilter = TRUE, !.iDisplayLength = 10]
        o2 == SetProp(o1, "oLanguage", [sSearch |-> "", sLengthMenu |-> LengthMenu])
    IN  [o2 EXCEPT !.sDom = ToolbarDom]

\* body of the 'tools-js' branch, lines 45-59
ToolsBranch(o) ==
    LET o1 == [o EXCEPT !.bPaginate = TRUE, !.bLengthChange = TRUE,
                        !.bInfo = TRUE, !.bFilter = TRUE]
        o2 == SetProp(o1, "oLanguage", [sSearch |-> "", sLengthMenu |-> LengthMenu])
    IN  [o2 EXCEPT !.sDom = ToolbarDom]

\* variant of InputBranch: the branch also turns pagination on
InputBranchPaginates(o) ==
    LET o1 == [o EXCEPT !.bFilter = TRUE, !.bPaginate = TRUE]
        o2 == SetProp(o1, "oLanguage", [sSearch |-> ""])
    IN  [o2 EXCEPT !.sDom = ToolbarDom]

\* body of the 'input-js' branch, lines 63-67
InputBranch(o) ==
    LET o1 == [o EXCEPT !.bFilter = TRUE]
        o2 == SetProp(o1, "oLanguage", [sSearch |-> ""])
    IN  [o2 EXCEPT !.sDom = ToolbarDom]

\* variant of TheadTh: the selector 'th', every th cell of the table
AllTh(tbl) == tbl.thead \o tbl.tbodyTh

\* the selection $('> thead th', this): the th cells under the thead child
TheadTh(tbl) == tbl.thead

\* one run of the callback of lines 71-77
ColEntry(th) ==
    IF ~HasClass(th, "no-tablesorter-js") THEN Null ELSE [bSortable |-> FALSE]

\* colList after the loop of lines 71-77
ColList(tbl) == [k \in 1..Len(TheadTh(tbl)) |-> ColEntry(TheadTh(tbl)[k])]

\* optionTable as it is passed to .dataTable(), lines 16-79
OptionTable(tbl) ==
    LET o0 == DefaultOptions
        o1 == IF HasClass(tbl, "tools-js") THEN ToolsBranch(o0) ELSE o0
        o2 == IF HasClass(tbl, "input-js") THEN InputBranch(o1) ELSE o1
    IN  SetProp(o2, "aoColumns", ColList(tbl))

(***************************************************************************)
(* The widget library and the DOM, as far as the callback uses them.       *)
(* A world w is the part of the state one run of the callback can change.  *)
(***************************************************************************)
Tables == DOMAIN page

\* variant of TablesorterSel: the selector 'table', every table of the page
TablesorterSelAll(pg) == [k \in 1..Len(pg) |-> k]

\* the selection $('.tablesorter-js') of line 10, in document order
TablesorterSel(pg) ==
    SelectSeq([k \in 1..Len(pg) |-> k], LAMBDA k : HasClass(pg[k], "tablesorter-js"))

\* the widget renders a filter input iff filtering is on and sDom has the 'f' feature
RendersFilter(opts) == opts.bFilter /\ opts.sDom = ToolbarDom

\* $(this).dataTable(optionTable), line 82: with bRetrieve an element that
\* already carries an instance keeps it, otherwise an instance is created
DataTable(w, el, obj, opts) ==
    LET logged == [w EXCEPT !.dtCalls = Append(@, [el |-> el, obj |-> obj, options |-> opts]),
                            !.trace = Append(@, "dataTable")]
    IN  IF w.instances[el].created
        THEN logged
        ELSE [logged EXCEPT
                !.instances[el] = [created |-> TRUE, sSearch |-> ""],
                !.inputs = IF RendersFilter(opts) THEN @ \cup {el} ELSE @]

\* var filterTableInput = $('.dataTables_filter input'), line 84: every filter
\* input the document holds when the selector is evaluated
FilterTableInput(w) ==
    [w EXCEPT !.filterTableInput = w.inputs,
              !.trace = Append(@, "filterTableInput")]

\* variant of OnBuildersPage: the query string is not looked at
OnAnyBuildersPage == buildersPage

\* the condition of line 87
OnBuildersPage == buildersPage /\ search /= ""

\* lines 87-90
Helper(w) ==
    IF OnBuildersPage
    THEN [w EXCEPT !.helperCalls = @ + 1,
                   !.trace = Append(@, "codeBaseBranchOverview")]
    ELSE w

Max(S) == CHOOSE m \in S : \A n \in S : n <= m

\* line 93: placeholder, focus and a keydown handler closing over oTable,
\* on every element of filterTableInput
Bind(w, oTable) ==
    LET sel == w.filterTableInput
    IN  [w EXCEPT
            !.placeholder = [t \in DOMAIN @ |-> IF t \in sel THEN "Filter results" ELSE @[t]],
            !.focused = IF sel = {} THEN @ ELSE Max(sel),
            !.handlers = [t \in DOMAIN @ |-> IF t \in sel THEN Append(@[t], oTable) ELSE @[t]],
            !.trace = Append(@, "keydown")]

\* variant of Callback: the filter inputs are looked up before the widget exists
CallbackLookupFirst(w, el, obj) ==
    LET w1 == FilterTableInput(w)
        w2 == DataTable(w1, el, obj, OptionTable(page[el]))
        w3 == Helper(w2)
    IN  Bind(w3, el)

\* one run of the callback of tablesorterEl.each on element el, lines 13-97
Callback(w, el, obj) ==
    LET w1 == DataTable(w, el, obj, OptionTable(page[el]))
        w2 == FilterTableInput(w1)
        w3 == Helper(w2)
    IN  Bind(w3, el)

\* oTable.fnFilter(v): the instance filters on v and shows v in its own input
FnFilter(st, oTable, v) ==
    [st EXCEPT
        !.instances[oTable].sSearch = v,
        !.inputVal = [t \in DOMAIN @ |-> IF t = oTable /\ t \in inputs THEN v ELSE @[t]],
        !.calls = Append(@, [table |-> oTable, value |-> v])]

\* variant of KeydownHandler: the value is the one read when the handler was
\* bound, the empty value of a new input
KeydownHandlerStale(st, inp, oTable) == FnFilter(st, oTable, "")

\* the handler of lines 93-95, bound with closure variable oTable, run on
\* the input inp ('this'): $(this).val() is read when the handler runs
KeydownHandler(st, inp, oTable) == FnFilter(st, oTable, st.inputVal[inp])

\* jQuery dispatches the event to the handlers of inp in the order they were bound
RECURSIVE Dispatch(_, _, _)
Dispatch(st, inp, hs) ==
    IF hs = <<>> THEN st
    ELSE Dispatch(KeydownHandler(st, inp, Head(hs)), inp, Tail(hs))

(***************************************************************************)
(* Initial states                                                          *)
(***************************************************************************)
Th(cs) == [classes |-> cs]

\* pages for the wiring: every class combination, one fixed header row
WiringTables ==
    [classes : SUBSET TableClasses,
     thead : {<<Th({}), Th({"no-tablesorter-js"})>>},
     tbodyTh : {<<>>}]

\* pages for the column list: every header row, and a th cell in the body
ColumnTables ==
    [classes : {{"tablesorter-js"}},
     thead : SeqsUpTo(ThCells, MaxCols),
     tbodyTh : {<<Th({"no-tablesorter-js"})>>}]

InitPage(tableSet, builders, searches) ==
    /\ page \in SeqsUpTo(tableSet, MaxTables)
    /\ buildersPage \in builders
    /\ search \in searches
    /\ pc = "idle"
    /\ tablesorterEl = <<>>
    /\ idx = 1
    /\ initCount = 0
    /\ instances = [t \in DOMAIN page |-> NoInstance]
    /\ inputs = {}
    /\ inputVal = [t \in DOMAIN page |-> ""]
    /\ placeholder = [t \in DOMAIN page |-> ""]
    /\ focused = 0
    /\ handlers = [t \in DOMAIN page |-> <<>>]
    /\ nextObj = 1
    /\ dtCalls = <<>>
    /\ helperCalls = 0
    /\ trace = <<>>
    /\ lastKeydown = NoEvent
    /\ fnFilterCalls = <<>>

Init == InitPage(WiringTables, BOOLEAN, Searches)

InitColumns == InitPage(ColumnTables, {FALSE}, {""})

(***************************************************************************)
(* Actions                                                                 *)
(***************************************************************************)
\* dataTables.init is called: line 10, and .each starts
InitCall ==
    /\ pc = "idle"
    /\ initCount < MaxInits
    /\ pc' = "each"
    /\ tablesorterEl' = TablesorterSel(page)
    /\ idx' = 1
    /\ dtCalls' = <<>>
    /\ helperCalls' = 0
    /\ trace' = <<>>
    /\ lastKeydown' = NoEvent
    /\ fnFilterCalls' = <<>>
    /\ UNCHANGED <<page, buildersPage, search, initCount, instances, inputs,
                   inputVal, placeholder, focused, handlers, nextObj>>

\* .each runs the callback on the next element of the selection
EachTable ==
    /\ pc = "each"
    /\ idx <= Len(tablesorterEl)
    /\ LET w == [instances |-> instances, inputs |-> inputs,
                 placeholder |-> placeholder, focused |-> focused,
                 handlers |-> handlers, dtCalls |-> dtCalls,
                 helperCalls |-> helperCalls, trace |-> <<>>,
                 filterTableInput |-> {}]
           r == Callback(w, tablesorterEl[idx], nextObj)
       IN  /\ instances' = r.instances
           /\ inputs' = r.inputs
           /\ placeholder' = r.placeholder
           /\ focused' = r.focused
           /\ handlers' = r.handlers
           /\ dtCalls' = r.dtCalls
           /\ helperCalls' = r.helperCalls
           /\ trace' = r.trace
    /\ nextObj' = nextObj + 1
    /\ idx' = idx + 1
    /\ UNCHANGED <<page, buildersPage, search, pc, tablesorterEl, initCount,
                   inputVal, lastKeydown, fnFilterCalls>>

\* .each has run out of elements and init returns
InitReturn ==
    /\ pc = "each"
    /\ idx > Len(tablesorterEl)
    /\ pc' = "idle"
    /\ initCount' = initCount + 1
    /\ UNCHANGED <<page, buildersPage, search, tablesorterEl, idx, instances,
                   inputs, inputVal, placeholder, focused, handlers, nextObj,
                   dtCalls, helperCalls, trace, lastKeydown, fnFilterCalls>>

\* the user moves the focus to another filter input
Focus(inp) ==
    /\ pc = "idle"
    /\ inp \in inputs
    /\ focused /= inp
    /\ focused' = inp
    /\ UNCHANGED <<page, buildersPage, search, pc, tablesorterEl, idx, initCount,
                   instances, inputs, inputVal, placeholder, handlers, nextObj,
                   dtCalls, helperCalls, trace, lastKeydown, fnFilterCalls>>

\* the user edits the text of the focused filter input
Type(inp, v) ==
    /\ pc = "idle"
    /\ inp \in inputs
    /\ focused = inp
    /\ v /= inputVal[inp]
    /\ inputVal' = [inputVal EXCEPT ![inp] = v]
    /\ UNCHANGED <<page, buildersPage, search, pc, tablesorterEl, idx, initCount,
                   instances, inputs, placeholder, focused, handlers, nextObj,
                   dtCalls, helperCalls, trace, lastKeydown, fnFilterCalls>>

\* a keydown event fires on the focused filter input and its handlers run
KeyDown(inp) ==
    /\ pc = "idle"
    /\ inp \in inputs
    /\ focused = inp
    /\ LET st == [instances |-> instances, inputVal |-> inputVal, calls |-> <<>>]
           r == Dispatch(st, inp, handlers[inp])
       IN  /\ instances' = r.instances
           /\ inputVal' = r.inputVal
           /\ fnFilterCalls' = r.calls
    /\ lastKeydown' = [fired |-> TRUE, target |-> inp, value |-> inputVal[inp]]
    /\ UNCHANGED <<page, buildersPage, search, pc, tablesorterEl, idx, initCount,
                   inputs, placeholder, focused, handlers, nextObj, dtCalls,
                   helperCalls, trace>>

Next ==
    \/ InitCall
    \/ EachTable
    \/ InitReturn
    \/ \E inp \in Tables : Focus(inp)
    \/ \E inp \in Tables, v \in Values : Type(inp, v)
    \/ \E inp \in Tables : KeyDown(inp)

Spec == Init /\ [][Next]_vars

\* init alone, on pages that vary the header cells
NextColumns ==
    \/ InitCall
    \/ EachTable
    \/ InitReturn

SpecColumns == InitColumns /\ [][NextColumns]_vars

(***************************************************************************)
(* Properties                                                              *)
(***************************************************************************)
IsTablesorter(t) == HasClass(page[t], "tablesorter-js")
IsTools(t) == HasClass(page[t], "tools-js")
IsInput(t) == HasClass(page[t], "input-js")
InitDone == pc = "idle" /\ initCount >= 1
Calls == DOMAIN dtCalls

\* C1: one call of init instantiates the widget exactly once for every table
\* with class 'tablesorter-js', in document order, never for a table without
\* the class, and every instantiation gets an option object of its own.
C1_OncePerTablesorterTable ==
    /\ \A k \in Calls :
         /\ IsTablesorter(dtCalls[k].el)
         /\ Cardinality({t \in Tables : IsTablesorter(t) /\ t < dtCalls[k].el}) = k - 1
    /\ \A j, k \in Calls : j /= k => dtCalls[j].obj /= dtCalls[k].obj
    /\ \A t \in Tables : instances[t].created => IsTablesorter(t)
    /\ InitDone => Len(dtCalls) = Cardinality({t \in Tables : IsTablesorter(t)})
    /\ InitDone => \A t \in Tables : IsTablesorter(t) => instances[t].created

C1_Witness ==
    /\ InitDone
    /\ Len(page) = 2
    /\ Len(dtCalls) = 2
    /\ dtCalls[1].el = 1 /\ dtCalls[2].el = 2

\* C2: aoColumns has exactly one entry per th cell of the table's own thead,
\* in header order; entry i is {bSortable: false} iff cell i has class
\* 'no-tablesorter-js', and null otherwise.
C2_ColumnsFollowOwnHeader ==
    \A k \in Calls :
        LET cols == dtCalls[k].options.aoColumns
            head == page[dtCalls[k].el].thead
        IN  /\ Len(cols) = Len(head)
            /\ \A c \in 1..Len(head) :
                 /\ cols[c] = [bSortable |-> FALSE]
                      <=> "no-tablesorter-js" \in head[c].classes
                 /\ "no-tablesorter-js" \notin head[c].classes => cols[c] = Null

C2_Witness ==
    /\ InitDone
    /\ Len(dtCalls) = 2
    /\ page[1].thead = <<Th({}), Th({"no-tablesorter-js"})>>
    /\ page[1].tbodyTh /= <<>>
    /\ page[2].thead = <<Th({"no-tablesorter-js"})>>
    /\ dtCalls[1].options.aoColumns = <<Null, [bSortable |-> FALSE]>>
    /\ dtCalls[2].options.aoColumns = <<[bSortable |-> FALSE]>>

\* C3: bPaginate, bLengthChange and bInfo are true iff the table has
\* 'tools-js'; bFilter is true iff it has 'tools-js' or 'input-js'; sDom is the
\* toolbar layout iff it has 'tools-js' or 'input-js' and the table-only
\* layout otherwise.
C3_ClassControlledOptions ==
    \A k \in Calls :
        LET o == dtCalls[k].options
            tools == IsTools(dtCalls[k].el)
            filterable == IsTools(dtCalls[k].el) \/ IsInput(dtCalls[k].el)
        IN  /\ o.bPaginate <=> tools
            /\ o.bLengthChange <=> tools
            /\ o.bInfo <=> tools
            /\ o.bFilter <=> filterable
            /\ o.sDom = ToolbarDom <=> filterable
            /\ ~filterable => o.sDom = TableOnlyDom

C3_Witness ==
    /\ InitDone
    /\ Len(dtCalls) = 2
    /\ page[1].classes = {"tablesorter-js", "input-js"}
    /\ page[2].classes = {"tablesorter-js", "tools-js"}
    /\ dtCalls[1].options.bFilter /\ ~dtCalls[1].options.bPaginate
    /\ dtCalls[2].options.bPaginate

\* C4: a keydown on the filter input the widget created for table T calls
\* fnFilter on the instance of T with the value the input held when the
\* event fired.
C4_KeydownFiltersOwnTable ==
    lastKeydown.fired =>
        \E k \in DOMAIN fnFilterCalls :
            fnFilterCalls[k] = [table |-> lastKeydown.target, value |-> lastKeydown.value]

C4_Witness ==
    /\ lastKeydown.fired
    /\ lastKeydown.target = 2
    /\ lastKeydown.value = "win"
    /\ inputs = {1, 2}
    /\ inputVal[1] = ""
    /\ instances[2].sSearch = "win"

\* C5: during one call of init the helper is called iff the page has
\* '#builders_page', location.search is not empty and a 'tablesorter-js'
\* table exists; otherwise it is never called.
C5_HelperOnlyOnBuildersPage ==
    LET wanted == /\ buildersPage
                  /\ search /= ""
                  /\ \E t \in Tables : IsTablesorter(t)
    IN  /\ helperCalls > 0 => wanted
        /\ InitDone => (helperCalls > 0 <=> wanted)

C5_Witness ==
    /\ InitDone
    /\ helperCalls > 0
    /\ \E t \in Tables : ~IsTablesorter(t)

\* C6 (as claimed): every 'tools-js' table gets language strings with the
\* empty search label and the 'Entries per page' length menu, whatever other
\* classes it has.
C6_ToolsTableKeepsLengthMenu ==
    \A k \in Calls :
        IsTools(dtCalls[k].el) =>
            /\ "oLanguage" \in DOMAIN dtCalls[k].options
            /\ dtCalls[k].options.oLanguage = [sSearch |-> "", sLengthMenu |-> LengthMenu]

\* C7: within one run of the callback the widget is instantiated first, then
\* the filter inputs are looked up, then the helper is conditionally called,
\* then the keydown handler is attached; so no handler and no fnFilter call
\* refers to a table without an instance.
C7_CallbackOrder ==
    /\ trace \in {<<>>,
                  <<"dataTable", "filterTableInput", "keydown">>,
                  <<"dataTable", "filterTableInput", "codeBaseBranchOverview", "keydown">>}
    /\ \A inp \in Tables : \A k \in DOMAIN handlers[inp] :
         instances[handlers[inp][k]].created
    /\ \A inp \in Tables : handlers[inp] /= <<>> => instances[inp].created
    /\ \A k \in DOMAIN fnFilterCalls : instances[fnFilterCalls[k].table].created

C7_Witness ==
    /\ pc = "each"
    /\ idx = 2
    /\ Len(tablesorterEl) = 2
    /\ trace = <<"dataTable", "filterTableInput", "codeBaseBranchOverview", "keydown">>
    /\ handlers[1] = <<1>>
    /\ ~instances[2].created

\* C8: the options no class controls are the same for every table.
C8_FixedOptions ==
    \A k \in Calls :
        LET o == dtCalls[k].options
        IN  /\ o.bSort = TRUE
            /\ o.bServerSide = FALSE
            /\ o.bRetrieve = TRUE
            /\ o.bStateSave = TRUE
            /\ o.bAutoWidth = FALSE
            /\ o.bSearchable = TRUE
            /\ o.asSorting = TRUE
            /\ o.iDisplayLength = 50
            /\ o.aaSorting = <<>>

C8_Witness ==
    /\ InitDone
    /\ Len(dtCalls) = 2
    /\ page[1].classes = {"tablesorter-js", "tools-js", "input-js"}
    /\ page[2].classes = {"tablesorter-js"}

\* C9 (as claimed): with two or more filterable tables, a keydown on the
\* filter input of T calls fnFilter on the instance of T only, and each
\* filter input carries exactly one keydown handler bound by init.
C9_FilterIsolation ==
    Cardinality({t \in Tables : IsTablesorter(t) /\ (IsTools(t) \/ IsInput(t))}) >= 2 =>
        /\ lastKeydown.fired =>
             \A k \in DOMAIN fnFilterCalls : fnFilterCalls[k].table = lastKeydown.target
        /\ InitDone => \A inp \in inputs : Len(handlers[inp]) = 1

\* C10 (as claimed): calls of init after the first add no keydown handler to
\* any filter input, and one call of init calls the helper at most once.
C10_InitIdempotent ==
    [][/\ (EachTable /\ initCount >= 1) => handlers' = handlers
       /\ helperCalls' <= 1]_vars

====
